---- MODULE Spec2Model ----
(***************************************************************************)
(* Separation analysis between consecutive departures (PGTA project 3).    *)
(*                                                                         *)
(* Units: times are whole seconds of day, distances and planar positions   *)
(* are tenths of a nautical mile (0.5 NM is 5, 3.0 NM is 30).              *)
(*                                                                         *)
(* Geometry is one-dimensional: an aircraft sits at position `pos` on the  *)
(* departure axis whose origin is the runway threshold, so the planar      *)
(* distance sqrt(dx^2 + dy^2) of geo_utils is |dx|.                        *)
(***************************************************************************)
EXTENDS Integers, Sequences, FiniteSets, TLC

\* ------------------------------------------------------------------ bounds
MaxLen == 4        \* longest track handed to the TrackIndex queries
MaxTime == 2       \* latest timestamp of a detection
MaxAbove == 2      \* positions reach DISTANCIA_INICIAL_CALCULO_NM + MaxAbove
MaxTol == 2        \* largest max_time_diff handed to find_concurrent_detection

\* ------------------------------------------------------- constants.py
DISTANCIA_INICIAL_CALCULO_NM == 5
MINIMA_RADAR_TWR_NM == 30
MINIMA_RADAR_TMA_NM == 30
TOLERANCE_TIME_SECONDS == 1

\* ------------------------------------------------------------------ state
VARIABLES
    track,        \* the list of DataItem handed to a TrackIndex query
    call,         \* the last TrackIndex query: function, arguments, return
    detections,   \* detections_by_callsign: callsign -> time-sorted track
    pair_call,    \* the last process_consecutive_pair call and its outcome
    eval_call,    \* the last SeparationEvaluator call and its outcome
    data_items,   \* the list of DataItem handed to the grouping and the batch
    batch,        \* calculate_separations_between_consecutive_departures: its locals
    tma_call,     \* the last calculate_minimum_tma_distance call and its outcome
    overlap_call  \* the last calculate_overlap_duration call and its outcome

vars == <<track, call, detections, pair_call, eval_call, data_items, batch, tma_call,
          overlap_call>>

Abs(n) == IF n < 0 THEN -n ELSE n

\* DataItem, reduced to the fields the analysis reads.
PosVals == (DISTANCIA_INICIAL_CALCULO_NM - 1) .. (DISTANCIA_INICIAL_CALCULO_NM + MaxAbove)
TimeVals == 0 .. MaxTime
DataItem == [time : TimeVals, pos : PosVals]

\* list.sort(key=lambda x: x.time) leaves every track ascending in time
\* (equal timestamps keep their input order).
IsSortedByTime(dets) ==
    \A k \in 1 .. (Len(dets) - 1) : dets[k].time <= dets[k + 1].time

\* ------------------------------------------------------------ geo_utils.py
calculate_distance_2d(x1, x2) == Abs(x2 - x1)

\* The threshold projects to the origin of the departure axis.
calculate_distance_to_threshold(det) == calculate_distance_2d(det.pos, 0)

\* ------------------------- calculate_separations_between_consecutive_departures.py
\* Python None where a string is expected.
NoneValue == "<None>"

\* str.strip() on the labels the model hands in.
Strip(s) ==
    CASE s = " " -> ""
      [] s = " Light " -> "Light"
      [] OTHER -> s

\* `item.callsign and item.callsign.strip()`
has_callsign(item) ==
    item.callsign # NoneValue /\ item.callsign # "" /\ Strip(item.callsign) # ""

\* One step of list.sort(key=lambda x: x.time): item goes behind every
\* element of the sorted list whose time is not later (the sort is stable).
RECURSIVE insert_by_time(_, _)
insert_by_time(sorted, item) ==
    IF sorted = <<>> THEN <<item>>
    ELSE IF sorted[Len(sorted)].time <= item.time
    THEN Append(sorted, item)
    ELSE Append(insert_by_time(SubSeq(sorted, 1, Len(sorted) - 1), item),
                sorted[Len(sorted)])

sort_by_time_unsorted(items) == items

RECURSIVE sort_by_time(_)
sort_by_time(items) ==
    IF items = <<>> THEN <<>>
    ELSE insert_by_time(sort_by_time(SubSeq(items, 1, Len(items) - 1)),
                        items[Len(items)])

group_detections_by_callsign(items) ==
    LET keys == {items[k].callsign : k \in {j \in 1 .. Len(items) : has_callsign(items[j])}}
        of(cs) == SelectSeq(items, LAMBDA it : has_callsign(it) /\ it.callsign = cs)
    IN  [cs \in keys |-> sort_by_time(of(cs))]

\* The queries return the index of the detection they return, 0 for None.
RECURSIVE ffvd_loop_no_check(_, _, _, _, _)
ffvd_loop_no_check(dets, min_distance_nm, k, has_prev, prev_distance) ==
    IF k > Len(dets) THEN 0
    ELSE LET dist_to_thr == calculate_distance_to_threshold(dets[k]) IN
         IF dist_to_thr >= min_distance_nm
         THEN IF ~has_prev
              THEN ffvd_loop_no_check(dets, min_distance_nm, k + 1, TRUE, dist_to_thr)
              ELSE k
         ELSE ffvd_loop_no_check(dets, min_distance_nm, k + 1, TRUE, dist_to_thr)

RECURSIVE ffvd_loop_ge(_, _, _, _, _)
ffvd_loop_ge(dets, min_distance_nm, k, has_prev, prev_distance) ==
    IF k > Len(dets) THEN 0
    ELSE LET dist_to_thr == calculate_distance_to_threshold(dets[k]) IN
         IF dist_to_thr >= min_distance_nm
         THEN IF ~has_prev
              THEN ffvd_loop_ge(dets, min_distance_nm, k + 1, TRUE, dist_to_thr)
              ELSE IF dist_to_thr >= prev_distance
                   THEN k
                   ELSE ffvd_loop_ge(dets, min_distance_nm, k + 1, TRUE, dist_to_thr)
         ELSE ffvd_loop_ge(dets, min_distance_nm, k + 1, TRUE, dist_to_thr)

\* The for loop of find_first_valid_detection from its k-th detection on;
\* has_prev is "prev_distance is not None".
RECURSIVE ffvd_loop(_, _, _, _, _)
ffvd_loop(dets, min_distance_nm, k, has_prev, prev_distance) ==
    IF k > Len(dets) THEN 0
    ELSE LET dist_to_thr == calculate_distance_to_threshold(dets[k]) IN
         IF dist_to_thr >= min_distance_nm
         THEN IF ~has_prev
              THEN ffvd_loop(dets, min_distance_nm, k + 1, TRUE, dist_to_thr)
              ELSE IF dist_to_thr > prev_distance
                   THEN k
                   ELSE ffvd_loop(dets, min_distance_nm, k + 1, TRUE, dist_to_thr)
         ELSE ffvd_loop(dets, min_distance_nm, k + 1, TRUE, dist_to_thr)

find_first_valid_detection(dets, min_distance_nm) ==
    ffvd_loop(dets, min_distance_nm, 1, FALSE, 0)

RECURSIVE fcd_loop_last_tie(_, _, _, _, _, _, _)
fcd_loop_last_tie(dets, reference_time, max_time_diff, k, has_best, min_time_diff, best_detection) ==
    IF k > Len(dets) THEN best_detection
    ELSE LET time_diff == Abs(dets[k].time - reference_time) IN
         IF (~has_best \/ time_diff <= min_time_diff) /\ time_diff < max_time_diff
         THEN fcd_loop_last_tie(dets, reference_time, max_time_diff, k + 1, TRUE, time_diff, k)
         ELSE fcd_loop_last_tie(dets, reference_time, max_time_diff, k + 1, has_best,
                                min_time_diff, best_detection)

\* The for loop of find_concurrent_detection from its k-th detection on;
\* has_best = FALSE is min_time_diff = float('inf').
RECURSIVE fcd_loop(_, _, _, _, _, _, _)
fcd_loop(dets, reference_time, max_time_diff, k, has_best, min_time_diff, best_detection) ==
    IF k > Len(dets) THEN best_detection
    ELSE LET time_diff == Abs(dets[k].time - reference_time) IN
         IF (~has_best \/ time_diff < min_time_diff) /\ time_diff < max_time_diff
         THEN fcd_loop(dets, reference_time, max_time_diff, k + 1, TRUE, time_diff, k)
         ELSE fcd_loop(dets, reference_time, max_time_diff, k + 1, has_best,
                       min_time_diff, best_detection)

find_concurrent_detection(dets, reference_time, max_time_diff) ==
    fcd_loop(dets, reference_time, max_time_diff, 1, FALSE, 0, 0)

\* min(d.time for d in dets) and max(d.time for d in dets), dets non-empty.
min_time(dets) ==
    CHOOSE t \in {dets[k].time : k \in 1 .. Len(dets)} :
        \A k \in 1 .. Len(dets) : t <= dets[k].time

max_time(dets) ==
    CHOOSE t \in {dets[k].time : k \in 1 .. Len(dets)} :
        \A k \in 1 .. Len(dets) : t >= dets[k].time

do_flight_trajectories_overlap_le(preceding_detections, following_detections) ==
    IF Len(preceding_detections) = 0 \/ Len(following_detections) = 0
    THEN FALSE
    ELSE min_time(following_detections) <= max_time(preceding_detections)

do_flight_trajectories_overlap(preceding_detections, following_detections) ==
    IF Len(preceding_detections) = 0 \/ Len(following_detections) = 0
    THEN FALSE
    ELSE min_time(following_detections) < max_time(preceding_detections)

calculate_overlap_duration_unclamped(preceding_detections, following_detections) ==
    IF Len(preceding_detections) = 0 \/ Len(following_detections) = 0
    THEN 0
    ELSE LET prec_start == min_time(preceding_detections)
             prec_end == max_time(preceding_detections)
             foll_start == min_time(following_detections)
             foll_end == max_time(following_detections)
             overlap_start == IF prec_start > foll_start THEN prec_start ELSE foll_start
             overlap_end == IF prec_end < foll_end THEN prec_end ELSE foll_end
         IN  overlap_end - overlap_start

calculate_overlap_duration(preceding_detections, following_detections) ==
    IF Len(preceding_detections) = 0 \/ Len(following_detections) = 0
    THEN 0
    ELSE LET prec_start == min_time(preceding_detections)
             prec_end == max_time(preceding_detections)
             foll_start == min_time(following_detections)
             foll_end == max_time(following_detections)
             overlap_start == IF prec_start > foll_start THEN prec_start ELSE foll_start
             overlap_end == IF prec_end < foll_end THEN prec_end ELSE foll_end
         IN  IF overlap_start < overlap_end THEN overlap_end - overlap_start ELSE 0

\* ------------------------------------------------- separation_checker.py
\* A Python float: a number, NaN or +infinity.  `a < b` is false as soon as
\* the left side is NaN or +infinity.
Num(n) == [k |-> "num", v |-> n]
NaN == [k |-> "nan", v |-> 0]
Inf == [k |-> "inf", v |-> 0]
FloatLt(a, n) == a.k = "num" /\ a.v < n

Returned(b) == [exc |-> "", val |-> b]
Raised(e) == [exc |-> e, val |-> FALSE]

\* def check_radar_separation(distance_nm, minima_nm=...): the names a call
\* may bind by keyword.
check_radar_separation_params == {"distance_nm", "minima_nm"}

\* A call check_radar_separation(distance_nm, <kw>=<value>): the keyword is
\* bound first (an unknown keyword is a TypeError), then the body runs.
check_radar_separation(distance_nm, kw, zone, minima_nm) ==
    IF kw \notin check_radar_separation_params
    THEN Raised("TypeError")
    ELSE Returned(FloatLt(distance_nm, minima_nm))

\* Wake minima in tenths of NM, keyed by (leading, trailing).
WAKE_TURBULENCE_SEPARATION ==
    (<<"SUPER", "HEAVY">> :> 60) @@ (<<"SUPER", "MEDIUM">> :> 70) @@
    (<<"SUPER", "LIGHT">> :> 80) @@ (<<"HEAVY", "HEAVY">> :> 40) @@
    (<<"HEAVY", "MEDIUM">> :> 50) @@ (<<"HEAVY", "LIGHT">> :> 60) @@
    (<<"MEDIUM", "LIGHT">> :> 50)

\* str.upper().strip() on the labels the model hands in.
UpperStrip(s) ==
    CASE s = "heavy" -> "HEAVY"
      [] s = " Light " -> "LIGHT"
      [] s = " " -> ""
      [] OTHER -> s

\* `x.upper().strip() if x else ''`
WakeKeyPart(s) == IF s = NoneValue \/ s = "" THEN "" ELSE UpperStrip(s)

WakeResult(incumplimiento, required_separation) ==
    [incumplimiento |-> incumplimiento, has_required |-> TRUE,
     required |-> required_separation]
WakeNotApplicable == [incumplimiento |-> FALSE, has_required |-> FALSE, required |-> 0]

check_wake_turbulence_separation_le(preceding_wake, following_wake, distance_nm) ==
    LET key == <<WakeKeyPart(preceding_wake), WakeKeyPart(following_wake)>> IN
    IF key \notin DOMAIN WAKE_TURBULENCE_SEPARATION
    THEN WakeNotApplicable
    ELSE WakeResult(distance_nm <= WAKE_TURBULENCE_SEPARATION[key],
                    WAKE_TURBULENCE_SEPARATION[key])

check_wake_turbulence_separation_default(preceding_wake, following_wake, distance_nm) ==
    LET key == <<WakeKeyPart(preceding_wake), WakeKeyPart(following_wake)>> IN
    IF key \notin DOMAIN WAKE_TURBULENCE_SEPARATION
    THEN WakeResult(distance_nm < MINIMA_RADAR_TWR_NM, MINIMA_RADAR_TWR_NM)
    ELSE WakeResult(distance_nm < WAKE_TURBULENCE_SEPARATION[key],
                    WAKE_TURBULENCE_SEPARATION[key])

check_wake_turbulence_separation_unordered(preceding_wake, following_wake, distance_nm) ==
    LET key == <<WakeKeyPart(preceding_wake), WakeKeyPart(following_wake)>>
        rev == <<key[2], key[1]>>
    IN
    IF key \in DOMAIN WAKE_TURBULENCE_SEPARATION
    THEN WakeResult(distance_nm < WAKE_TURBULENCE_SEPARATION[key],
                    WAKE_TURBULENCE_SEPARATION[key])
    ELSE IF rev \in DOMAIN WAKE_TURBULENCE_SEPARATION
    THEN WakeResult(distance_nm < WAKE_TURBULENCE_SEPARATION[rev],
                    WAKE_TURBULENCE_SEPARATION[rev])
    ELSE WakeNotApplicable

check_wake_turbulence_separation(preceding_wake, following_wake, distance_nm) ==
    LET key == <<WakeKeyPart(preceding_wake), WakeKeyPart(following_wake)>> IN
    IF key \notin DOMAIN WAKE_TURBULENCE_SEPARATION
    THEN WakeNotApplicable
    ELSE WakeResult(distance_nm < WAKE_TURBULENCE_SEPARATION[key],
                    WAKE_TURBULENCE_SEPARATION[key])

\* The names separation_checker.py defines; importing any other name from it
\* raises ImportError.
separation_checker_names ==
    {"check_radar_separation", "check_wake_turbulence_separation",
     "check_loa_separation", "is_moving_away_from_threshold",
     "get_wake_category_priority"}

\* `from <module> import <name>`: the exception it raises, "" for none.
ImportFrom(module_names, name) ==
    IF name \in module_names THEN "" ELSE "ImportError"

\* from functions.separation_checker import normalize_wake_category, then a
\* call normalize_wake_category(raw): the name is never bound, no category
\* comes back.
normalize_wake_category(raw) ==
    [exc |-> ImportFrom(separation_checker_names, "normalize_wake_category"),
     category |-> ""]

\* ------------------------------------------- calculate_minimum_tma_distance
\* DataItem.is_in_geographic_filter, lat and lon in tenths of a degree.
is_in_geographic_filter(det) ==
    409 <= det.lat /\ det.lat <= 417 /\ 15 <= det.lon /\ det.lon <= 26

\* barometric_altitude is Optional[float]: known is FALSE for None.
KnownAltitude(ft) == [known |-> TRUE, ft |-> ft]
NoAltitude == [known |-> FALSE, ft |-> 0]
\* `not d.barometric_altitude or d.barometric_altitude <= 6000`
altitude_passes(det) ==
    \/ ~det.barometric_altitude.known
    \/ det.barometric_altitude.ft = 0
    \/ det.barometric_altitude.ft <= 6000

\* (min_distance, min_time); float('inf') and None are the undefined pair.
TmaUndefined == [defined |-> FALSE, min_distance |-> 0, min_time |-> 0]
TmaMinimum(dist, time) == [defined |-> TRUE, min_distance |-> dist, min_time |-> time]

\* The inner loop over preceding_filtered for one foll_det.
RECURSIVE tma_inner_any_time(_, _, _, _)
tma_inner_any_time(foll_det, preceding_filtered, k, acc) ==
    IF k > Len(preceding_filtered) THEN acc
    ELSE LET prec_det == preceding_filtered[k]
             dist == calculate_distance_2d(prec_det.pos, foll_det.pos)
         IN  IF ~acc.defined \/ dist < acc.min_distance
             THEN tma_inner_any_time(foll_det, preceding_filtered, k + 1,
                                     TmaMinimum(dist, foll_det.time))
             ELSE tma_inner_any_time(foll_det, preceding_filtered, k + 1, acc)

RECURSIVE tma_inner(_, _, _, _)
tma_inner(foll_det, preceding_filtered, k, acc) ==
    IF k > Len(preceding_filtered) THEN acc
    ELSE LET prec_det == preceding_filtered[k]
             time_diff == Abs(prec_det.time - foll_det.time)
             dist == calculate_distance_2d(prec_det.pos, foll_det.pos)
         IN  IF time_diff > 30
             THEN tma_inner(foll_det, preceding_filtered, k + 1, acc)
             ELSE IF ~acc.defined \/ dist < acc.min_distance
             THEN tma_inner(foll_det, preceding_filtered, k + 1,
                            TmaMinimum(dist, foll_det.time))
             ELSE tma_inner(foll_det, preceding_filtered, k + 1, acc)

\* The outer loop over following_filtered.
RECURSIVE tma_outer(_, _, _, _)
tma_outer(following_filtered, preceding_filtered, j, acc) ==
    IF j > Len(following_filtered) THEN acc
    ELSE tma_outer(following_filtered, preceding_filtered, j + 1,
                   tma_inner(following_filtered[j], preceding_filtered, 1, acc))

calculate_minimum_tma_distance(preceding_detections, following_detections, first_valid_time) ==
    LET following_filtered ==
            SelectSeq(following_detections, LAMBDA d : d.time > first_valid_time)
    IN
    IF following_filtered = <<>>
    THEN TmaUndefined
    ELSE
    LET foll_time_start == following_filtered[1].time
        foll_time_end == following_filtered[Len(following_filtered)].time
        preceding_filtered ==
            SelectSeq(preceding_detections,
                      LAMBDA d : /\ is_in_geographic_filter(d)
                                 /\ altitude_passes(d)
                                 /\ foll_time_start <= d.time
                                 /\ d.time <= foll_time_end)
    IN
    IF preceding_filtered = <<>>
    THEN TmaUndefined
    ELSE tma_outer(following_filtered, preceding_filtered, 1, TmaUndefined)

\* ----------------------------------------------- process_consecutive_pair
\* A column of the result: a value, the blank string '' or the string 'NA'.
\* Distances are tenths of a mile, which round(x, 2) leaves as they are.
Value(v) == [cell |-> "value", v |-> v]
Blank == [cell |-> "blank"]
NA == [cell |-> "NA"]

ReturnNone == [kind |-> "None", exc |-> "", rec |-> <<>>]
RaiseExc(e) == [kind |-> "raise", exc |-> e, rec |-> <<>>]
ReturnDict(r) == [kind |-> "result", exc |-> "", rec |-> r]

\* prec_first_time, foll_first_time and the test `foll_first_time <=
\* prec_first_time` of process_consecutive_pair.
foll_departs_not_after_lt(prec_dets, foll_dets) ==
    min_time(foll_dets) < min_time(prec_dets)

foll_departs_not_after(prec_dets, foll_dets) ==
    min_time(foll_dets) <= min_time(prec_dets)

process_consecutive_pair(preceding, following, dets_by_callsign) ==
    LET prec_callsign == preceding.Indicativo
        foll_callsign == following.Indicativo
    IN
    IF prec_callsign \notin DOMAIN dets_by_callsign
       \/ foll_callsign \notin DOMAIN dets_by_callsign
    THEN ReturnNone
    ELSE
    LET prec_dets == dets_by_callsign[prec_callsign]
        foll_dets == dets_by_callsign[foll_callsign]
    IN
    IF ~do_flight_trajectories_overlap(prec_dets, foll_dets)
    THEN ReturnNone
    ELSE IF foll_departs_not_after(prec_dets, foll_dets)
    THEN ReturnNone
    ELSE
    LET first_valid_foll ==
            find_first_valid_detection(foll_dets, DISTANCIA_INICIAL_CALCULO_NM)
    IN
    IF first_valid_foll = 0
    THEN ReturnNone
    ELSE
    LET prec_at_time ==
            find_concurrent_detection(prec_dets, foll_dets[first_valid_foll].time,
                                      TOLERANCE_TIME_SECONDS)
    IN
    IF prec_at_time = 0
    THEN ReturnNone
    ELSE
    LET dist_twr == calculate_distance_2d(prec_dets[prec_at_time].pos,
                                          foll_dets[first_valid_foll].pos)
        inc_radar_twr == check_radar_separation(Num(dist_twr), "zone", "TWR", 0)
    IN
    IF inc_radar_twr.exc # ""
    THEN RaiseExc(inc_radar_twr.exc)
    ELSE
    LET prec_wake == normalize_wake_category(preceding.Estela)
        foll_wake == normalize_wake_category(following.Estela)
    IN
    IF prec_wake.exc # ""
    THEN RaiseExc(prec_wake.exc)
    ELSE IF foll_wake.exc # ""
    THEN RaiseExc(foll_wake.exc)
    ELSE
    LET wake_twr == check_wake_turbulence_separation(prec_wake.category,
                                                     foll_wake.category, dist_twr)
        tma == calculate_minimum_tma_distance(prec_dets, foll_dets,
                                              foll_dets[first_valid_foll].time)
        inc_radar_tma ==
            IF tma.defined
            THEN check_radar_separation(Num(tma.min_distance), "zone", "TMA", 0)
            ELSE Returned(FALSE)
        inc_wake_tma ==
            IF tma.defined
            THEN check_wake_turbulence_separation(prec_wake.category, foll_wake.category,
                                                  tma.min_distance).incumplimiento
            ELSE FALSE
    IN
    IF inc_radar_tma.exc # ""
    THEN RaiseExc(inc_radar_tma.exc)
    ELSE ReturnDict([Callsign_Preceding |-> prec_callsign,
                     Callsign_Following |-> foll_callsign,
                     ATOT_Preceding |-> preceding.HoraDespegue,
                     ATOT_Following |-> following.HoraDespegue,
                     Time_Overlap_Seconds |-> calculate_overlap_duration(prec_dets, foll_dets),
                     ToD_TWR |-> foll_dets[first_valid_foll].time,
                     Distance_TWR_NM |-> dist_twr,
                     ToD_Min_TMA |-> IF tma.defined /\ tma.min_time # 0
                                     THEN Value(tma.min_time) ELSE Blank,
                     Min_Distance_TMA_NM |-> IF tma.defined
                                             THEN Value(tma.min_distance) ELSE Blank,
                     Inc_Radar_TWR |-> inc_radar_twr.val,
                     Inc_Radar_TMA |-> inc_radar_tma.val,
                     Inc_Wake_TWR |-> IF wake_twr.has_required
                                      THEN Value(wake_twr.incumplimiento) ELSE NA,
                     Inc_Wake_TMA |-> IF wake_twr.has_required
                                      THEN Value(inc_wake_tma) ELSE NA,
                     Wake_Separation_Required_NM |-> IF wake_twr.has_required
                                                     THEN Value(wake_twr.required) ELSE NA,
                     Wake_Preceding |-> prec_wake.category,
                     Wake_Following |-> foll_wake.category])

\* ------------------- calculate_separations_between_consecutive_departures
\* normalize_runway on the PistaDesp values of the flight-plan sheet.
normalize_runway(pista_str) ==
    CASE pista_str = "LEBL-24L" -> "24L"
      [] pista_str = "LEBL-06R" -> "06R"
      [] OTHER -> pista_str

\* One step of sort_values('HoraDespegue').
RECURSIVE insert_by_HoraDespegue(_, _)
insert_by_HoraDespegue(sorted, row) ==
    IF sorted = <<>> THEN <<row>>
    ELSE IF sorted[Len(sorted)].HoraDespegue <= row.HoraDespegue
    THEN Append(sorted, row)
    ELSE Append(insert_by_HoraDespegue(SubSeq(sorted, 1, Len(sorted) - 1), row),
                sorted[Len(sorted)])

RECURSIVE sort_values_HoraDespegue(_)
sort_values_HoraDespegue(rows) ==
    IF rows = <<>> THEN <<>>
    ELSE insert_by_HoraDespegue(sort_values_HoraDespegue(SubSeq(rows, 1, Len(rows) - 1)),
                                rows[Len(rows)])

\* The departures of the runway, in take-off order.
departures_of_runway_unsorted(flight_plans, runway) ==
    SelectSeq(flight_plans, LAMBDA row : normalize_runway(row.PistaDesp) = runway)

departures_of_runway(flight_plans, runway) ==
    sort_values_HoraDespegue(
        SelectSeq(flight_plans, LAMBDA row : normalize_runway(row.PistaDesp) = runway))

\* The locals of the batch after its preamble: either the early return of an
\* empty DataFrame or the entry into the pair loop.
batch_preamble(b, dets_by_callsign) ==
    LET dep_runway == departures_of_runway(b.flight_plans, b.runway)
        fp_callsigns == {dep_runway[k].Indicativo : k \in 1 .. Len(dep_runway)}
        common_callsigns == fp_callsigns \cap DOMAIN dets_by_callsign
    IN  [b EXCEPT !.dep_runway = dep_runway,
                  !.pc = IF common_callsigns = {} THEN "return_empty" ELSE "loop"]

\* One iteration of `for i in range(len(dep_runway) - 1)`, i counted from 0.
batch_iteration_break(b, dets_by_callsign) ==
    LET out == process_consecutive_pair(b.dep_runway[b.i + 1], b.dep_runway[b.i + 2],
                                        dets_by_callsign)
        \* the arguments of this call of process_consecutive_pair
        called == [b EXCEPT !.analysed_pairs =
                       Append(@, <<b.dep_runway[b.i + 1].Indicativo,
                                   b.dep_runway[b.i + 2].Indicativo>>)]
    IN  CASE out.kind = "result" ->
               [called EXCEPT !.results = Append(@, out.rec), !.i = @ + 1]
          [] out.kind = "None" ->
               [called EXCEPT !.skipped_no_overlap = @ + 1, !.i = @ + 1]
          [] out.kind = "raise" ->
               [called EXCEPT !.printed_errors = Append(@, b.i),
                         !.i = Len(b.dep_runway) - 1]

batch_iteration(b, dets_by_callsign) ==
    LET out == process_consecutive_pair(b.dep_runway[b.i + 1], b.dep_runway[b.i + 2],
                                        dets_by_callsign)
        \* the arguments of this call of process_consecutive_pair
        called == [b EXCEPT !.analysed_pairs =
                       Append(@, <<b.dep_runway[b.i + 1].Indicativo,
                                   b.dep_runway[b.i + 2].Indicativo>>)]
    IN  CASE out.kind = "result" ->
               [called EXCEPT !.results = Append(@, out.rec), !.i = @ + 1]
          [] out.kind = "None" ->
               [called EXCEPT !.skipped_no_overlap = @ + 1, !.i = @ + 1]
          [] out.kind = "raise" ->
               [called EXCEPT !.printed_errors = Append(@, b.i), !.i = @ + 1]

\* ------------------------------------------------------------ input spaces
SeqsUpTo(S, n) == UNION {[1 .. m -> S] : m \in 0 .. n}

\* Tracks for the outbound query: one detection per second, any positions.
OutboundTracks ==
    {[k \in 1 .. Len(ps) |-> [time |-> k - 1, pos |-> ps[k]]] :
        ps \in SeqsUpTo(PosVals, MaxLen)}

\* Tracks for the time query: any ascending times, one position.
TimedTracks ==
    {[k \in 1 .. Len(ts) |-> [time |-> ts[k], pos |-> DISTANCIA_INICIAL_CALCULO_NM]] :
        ts \in {t \in SeqsUpTo(TimeVals, MaxLen) :
                    \A k \in 1 .. (Len(t) - 1) : t[k] <= t[k + 1]}}

QueryTracks == OutboundTracks \cup TimedTracks

MinDistances == {DISTANCIA_INICIAL_CALCULO_NM, DISTANCIA_INICIAL_CALCULO_NM + 1}
RefTimes == 0 .. (MaxTime + 1)
Tolerances == 1 .. MaxTol

\* Tracks of the callsign index: non-empty, ascending in time, on either
\* side of the 0.5 NM circle.
PairLen == MaxLen - 2
PairPos == {DISTANCIA_INICIAL_CALCULO_NM - 1, DISTANCIA_INICIAL_CALCULO_NM + 1}
PairTracks ==
    {t \in SeqsUpTo([time : TimeVals, pos : PairPos, lat : {410}, lon : {20},
                      barometric_altitude : {NoAltitude}], PairLen) :
        Len(t) >= 1 /\ IsSortedByTime(t)}

Callsigns == {"AAA", "BBB"}

\* A row of the flight-plan sheet.
DepartureRow(callsign) ==
    [Indicativo |-> callsign, Estela |-> "MEDIUM",
     HoraDespegue |-> IF callsign = "AAA" THEN 1 ELSE 2]
DetectionIndexes == UNION {[S -> PairTracks] : S \in SUBSET Callsigns}

\* Callsign indexes for the TMA part of the pair analysis: tracks one
\* detection longer than those above, so that detections follow the TWR
\* reference point of BBB; AAA stays on one side of the 0.5 NM circle.
LongPairTracks ==
    {t \in {Append(u, d) : u \in PairTracks,
                           d \in [time : TimeVals, pos : PairPos, lat : {410},
                                  lon : {20}, barometric_altitude : {NoAltitude}]} :
        Len(t) = PairLen + 1 /\ IsSortedByTime(t)}
TmaDetectionIndexes ==
    {[cs \in Callsigns |-> IF cs = "AAA" THEN a ELSE b] :
        a \in {t \in LongPairTracks :
                  \A k \in 1 .. Len(t) : t[k].pos = DISTANCIA_INICIAL_CALCULO_NM + 1},
        b \in LongPairTracks}

Zones == {"TWR", "TMA", "GND"}
RadarDistances ==
    {Num(n) : n \in (-1) .. (MINIMA_RADAR_TWR_NM + 1)} \cup {NaN, Inf}

WakeLabels ==
    {"SUPER", "HEAVY", "MEDIUM", "LIGHT", "UNKNOWN", "", "-", "heavy", " Light ",
     NoneValue}
WakeDistances ==
    UNION {{WAKE_TURBULENCE_SEPARATION[key] - 1, WAKE_TURBULENCE_SEPARATION[key],
            WAKE_TURBULENCE_SEPARATION[key] + 1} :
               key \in DOMAIN WAKE_TURBULENCE_SEPARATION}

\* The batch: three departures, each without radar track or with a track of
\* two detections that crosses the 0.5 NM circle.
BatchCallsigns == <<"AAA", "BBB", "CCC">>
BatchTracks(callsign) ==
    {<<>>} \cup
    {<<[callsign |-> callsign, time |-> t1, pos |-> DISTANCIA_INICIAL_CALCULO_NM - 1],
       [callsign |-> callsign, time |-> t2, pos |-> DISTANCIA_INICIAL_CALCULO_NM + 1]>> :
        t1 \in TimeVals, t2 \in TimeVals}
BatchDataItems ==
    {a \o b \o c : a \in BatchTracks(BatchCallsigns[1]),
                   b \in BatchTracks(BatchCallsigns[2]),
                   c \in BatchTracks(BatchCallsigns[3])}

Runways == {"24L", "06R"}
FlightPlanRow(k, pista) ==
    [Indicativo |-> BatchCallsigns[k], Estela |-> "MEDIUM", PistaDesp |-> pista,
     HoraDespegue |-> k]
\* Sheets list the three departures in any row order; the last one leaves
\* from either runway.
SheetOrders == {o \in [1 .. 3 -> 1 .. 3] : \A x, y \in 1 .. 3 : x # y => o[x] # o[y]}
FlightPlans ==
    {[k \in 1 .. 3 |-> FlightPlanRow(o[k], IF o[k] = 3 THEN pista ELSE "LEBL-24L")] :
        o \in SheetOrders, pista \in {"LEBL-24L", "LEBL-06R"}}

\* Radar items for the grouping: two callsigns and the three ways of
\* having none, in any order of time.
GroupCallsigns == {"AAA", "BBB", "", " ", NoneValue}
GroupItems ==
    [callsign : GroupCallsigns, time : TimeVals, pos : {DISTANCIA_INICIAL_CALCULO_NM}]
GroupLen == MaxLen - 1

\* Tracks for the TMA minimum: times on either side of the 30 s
\* comparison window, the preceding points inside and outside the
\* geographic box and below, at and above 6000 ft.
TmaTimes == {0, 5, 40, 70, 75}
TmaRefTimes == {0, 5}
TmaFollowingItems == [time : TmaTimes, pos : {10, 20}]
TmaAttributes ==
    {[lat |-> 410, lon |-> 20, barometric_altitude |-> NoAltitude],
     [lat |-> 410, lon |-> 20, barometric_altitude |-> KnownAltitude(6000)],
     [lat |-> 410, lon |-> 20, barometric_altitude |-> KnownAltitude(6001)],
     [lat |-> 408, lon |-> 20, barometric_altitude |-> NoAltitude],
     [lat |-> 410, lon |-> 27, barometric_altitude |-> KnownAltitude(0)]}
TmaPrecedingItems ==
    {[time |-> t, pos |-> 50, lat |-> a.lat, lon |-> a.lon,
      barometric_altitude |-> a.barometric_altitude] :
        t \in TmaTimes, a \in TmaAttributes}
TmaTracks(items) == {t \in SeqsUpTo(items, 2) : IsSortedByTime(t)}

NoOverlap == [fn |-> "", preceding |-> <<>>, following |-> <<>>, ret |-> 0]

NoBatch == [pc |-> "", flight_plans |-> <<>>, runway |-> "", dep_runway |-> <<>>,
            i |-> 0, results |-> <<>>, skipped_no_overlap |-> 0,
            printed_errors |-> <<>>, analysed_pairs |-> <<>>]
NoTma == [fn |-> "", preceding |-> <<>>, following |-> <<>>, first_valid_time |-> 0,
          ret |-> TmaUndefined]
NoCall == [fn |-> "", min_distance_nm |-> 0, reference_time |-> 0,
           max_time_diff |-> 0, ret |-> 0]
NoPair == [fn |-> "", preceding |-> "", following |-> "", out |-> ReturnNone]
NoEval == [fn |-> "", distance |-> Num(0), kw |-> "", zone |-> "", minima_nm |-> 0,
           ret |-> Returned(FALSE)]

\* ---------------------------------------------------------------- actions
FindFirstValid ==
    /\ \E m \in MinDistances :
          call' = [fn |-> "find_first_valid_detection", min_distance_nm |-> m,
                   reference_time |-> 0, max_time_diff |-> 0,
                   ret |-> find_first_valid_detection(track, m)]
    /\ UNCHANGED <<track, detections, pair_call, eval_call, data_items, batch, tma_call, overlap_call>>

FindConcurrent ==
    /\ \E r \in RefTimes, tol \in Tolerances :
          call' = [fn |-> "find_concurrent_detection", min_distance_nm |-> 0,
                   reference_time |-> r, max_time_diff |-> tol,
                   ret |-> find_concurrent_detection(track, r, tol)]
    /\ UNCHANGED <<track, detections, pair_call, eval_call, data_items, batch, tma_call, overlap_call>>

ProcessPair ==
    /\ \E p \in Callsigns, f \in Callsigns :
          pair_call' = [fn |-> "process_consecutive_pair", preceding |-> p,
                        following |-> f,
                        out |-> process_consecutive_pair(DepartureRow(p), DepartureRow(f),
                                                         detections)]
    /\ UNCHANGED <<track, call, detections, eval_call, data_items, batch, tma_call, overlap_call>>

CheckRadarZone ==
    /\ \E d \in RadarDistances, z \in Zones :
          eval_call' = [fn |-> "check_radar_separation", distance |-> d, kw |-> "zone",
                        zone |-> z, minima_nm |-> 0,
                        ret |-> check_radar_separation(d, "zone", z, 0)]
    /\ UNCHANGED <<track, call, detections, pair_call, data_items, batch, tma_call, overlap_call>>

CheckRadarMinima ==
    /\ \E d \in RadarDistances, m \in {MINIMA_RADAR_TWR_NM, MINIMA_RADAR_TMA_NM} :
          eval_call' = [fn |-> "check_radar_separation", distance |-> d,
                        kw |-> "minima_nm", zone |-> "", minima_nm |-> m,
                        ret |-> check_radar_separation(d, "minima_nm", "", m)]
    /\ UNCHANGED <<track, call, detections, pair_call, data_items, batch, tma_call, overlap_call>>

CheckWake ==
    /\ \E a \in WakeLabels, b \in WakeLabels, d \in WakeDistances :
          eval_call' = [fn |-> "check_wake_turbulence_separation",
                        preceding_wake |-> a, following_wake |-> b, distance |-> d,
                        ret |-> check_wake_turbulence_separation(a, b, d)]
    /\ UNCHANGED <<track, call, detections, pair_call, data_items, batch, tma_call, overlap_call>>

NormalizeWake ==
    /\ \E raw \in WakeLabels :
          eval_call' = [fn |-> "normalize_wake_category", raw |-> raw,
                        ret |-> normalize_wake_category(raw)]
    /\ UNCHANGED <<track, call, detections, pair_call, data_items, batch, tma_call, overlap_call>>

\* ---------------------------------------------------------- specifications
\* Pair analysis over a callsign index.
Init ==
    /\ detections \in DetectionIndexes
    /\ pair_call = NoPair
    /\ track = <<>>
    /\ call = NoCall
    /\ eval_call = NoEval
    /\ data_items = <<>>
    /\ batch = NoBatch
    /\ tma_call = NoTma
    /\ overlap_call = NoOverlap

Next == ProcessPair

Spec == Init /\ [][Next]_vars

\* TrackIndex queries over one track.
InitTrack ==
    /\ track \in QueryTracks
    /\ call = NoCall
    /\ detections = <<>>
    /\ pair_call = NoPair
    /\ eval_call = NoEval
    /\ data_items = <<>>
    /\ batch = NoBatch
    /\ tma_call = NoTma
    /\ overlap_call = NoOverlap

NextTrack == FindFirstValid \/ FindConcurrent

SpecTrack == InitTrack /\ [][NextTrack]_vars

\* SeparationEvaluator calls.
InitEval ==
    /\ eval_call = NoEval
    /\ track = <<>>
    /\ call = NoCall
    /\ detections = <<>>
    /\ pair_call = NoPair
    /\ data_items = <<>>
    /\ batch = NoBatch
    /\ tma_call = NoTma
    /\ overlap_call = NoOverlap

NextEval == CheckRadarZone \/ CheckRadarMinima \/ CheckWake \/ NormalizeWake

SpecEval == InitEval /\ [][NextEval]_vars

\* The runway batch.  BatchStart is the preamble of the function, BatchStep
\* one iteration of its loop, BatchFinish the return of results_df.
InitBatch ==
    /\ data_items \in BatchDataItems
    /\ \E fp \in FlightPlans, rwy \in Runways :
          batch = [NoBatch EXCEPT !.pc = "start", !.flight_plans = fp, !.runway = rwy]
    /\ detections = <<>>
    /\ track = <<>>
    /\ call = NoCall
    /\ pair_call = NoPair
    /\ eval_call = NoEval
    /\ tma_call = NoTma
    /\ overlap_call = NoOverlap

BatchStart ==
    /\ batch.pc = "start"
    /\ detections' = group_detections_by_callsign(data_items)
    /\ batch' = batch_preamble(batch, detections')
    /\ UNCHANGED <<track, call, pair_call, eval_call, data_items, tma_call, overlap_call>>

BatchStep ==
    /\ batch.pc = "loop"
    /\ batch.i < Len(batch.dep_runway) - 1
    /\ batch' = batch_iteration(batch, detections)
    /\ UNCHANGED <<track, call, detections, pair_call, eval_call, data_items, tma_call, overlap_call>>

BatchFinish ==
    /\ batch.pc = "loop"
    /\ batch.i >= Len(batch.dep_runway) - 1
    /\ batch' = [batch EXCEPT !.pc = "return_results"]
    /\ UNCHANGED <<track, call, detections, pair_call, eval_call, data_items, tma_call, overlap_call>>

NextBatch == BatchStart \/ BatchStep \/ BatchFinish

SpecBatch == InitBatch /\ [][NextBatch]_vars

\* Grouping of a list of radar items.
InitGroup ==
    /\ data_items \in SeqsUpTo(GroupItems, GroupLen)
    /\ detections = <<>>
    /\ call = NoCall
    /\ track = <<>>
    /\ pair_call = NoPair
    /\ eval_call = NoEval
    /\ batch = NoBatch
    /\ tma_call = NoTma
    /\ overlap_call = NoOverlap

GroupDetections ==
    /\ detections' = group_detections_by_callsign(data_items)
    /\ call' = [NoCall EXCEPT !.fn = "group_detections_by_callsign"]
    /\ UNCHANGED <<track, pair_call, eval_call, data_items, batch, tma_call, overlap_call>>

NextGroup == GroupDetections

SpecGroup == InitGroup /\ [][NextGroup]_vars

\* TMA minimum of two tracks.
InitTMA ==
    /\ \E p \in TmaTracks(TmaPrecedingItems), f \in TmaTracks(TmaFollowingItems),
          t \in TmaRefTimes :
          tma_call = [NoTma EXCEPT !.preceding = p, !.following = f,
                                   !.first_valid_time = t]
    /\ track = <<>>
    /\ call = NoCall
    /\ detections = <<>>
    /\ pair_call = NoPair
    /\ eval_call = NoEval
    /\ data_items = <<>>
    /\ batch = NoBatch
    /\ overlap_call = NoOverlap

CalculateMinimumTMA ==
    /\ tma_call' =
          [tma_call EXCEPT
              !.fn = "calculate_minimum_tma_distance",
              !.ret = calculate_minimum_tma_distance(tma_call.preceding, tma_call.following,
                                                     tma_call.first_valid_time)]
    /\ UNCHANGED <<track, call, detections, pair_call, eval_call, data_items, batch, overlap_call>>

NextTMA == CalculateMinimumTMA

SpecTMA == InitTMA /\ [][NextTMA]_vars

\* Pair analysis of a preceding track and a longer following track.
InitPairTMA ==
    /\ detections \in TmaDetectionIndexes
    /\ pair_call = NoPair
    /\ track = <<>>
    /\ call = NoCall
    /\ eval_call = NoEval
    /\ data_items = <<>>
    /\ batch = NoBatch
    /\ tma_call = NoTma
    /\ overlap_call = NoOverlap

SpecPairTMA == InitPairTMA /\ [][Next]_vars

\* Overlap duration of two tracks, empty ones included.
InitOverlap ==
    /\ \E p \in TimedTracks, f \in TimedTracks :
          overlap_call = [NoOverlap EXCEPT !.preceding = p, !.following = f]
    /\ track = <<>>
    /\ call = NoCall
    /\ detections = <<>>
    /\ pair_call = NoPair
    /\ eval_call = NoEval
    /\ data_items = <<>>
    /\ batch = NoBatch
    /\ tma_call = NoTma

CalculateOverlapDuration ==
    /\ overlap_call' =
          [overlap_call EXCEPT
              !.fn = "calculate_overlap_duration",
              !.ret = calculate_overlap_duration(overlap_call.preceding,
                                                 overlap_call.following)]
    /\ UNCHANGED <<track, call, detections, pair_call, eval_call, data_items, batch,
                   tma_call>>

NextOverlap == CalculateOverlapDuration

SpecOverlap == InitOverlap /\ [][NextOverlap]_vars

\* ------------------------------------------------------------- properties
IsFirstValidCall == call.fn = "find_first_valid_detection"
IsConcurrentCall == call.fn = "find_concurrent_detection"
IsPairCall == pair_call.fn = "process_consecutive_pair"
IsRadarCall == eval_call.fn = "check_radar_separation"

DistAt(k) == calculate_distance_to_threshold(track[k])
Reaches(k) == DistAt(k) >= call.min_distance_nm
Outbound(k) == k >= 2 /\ Reaches(k) /\ DistAt(k) > DistAt(k - 1)
FirstReaching ==
    IF \E k \in 1 .. Len(track) : Reaches(k)
    THEN CHOOSE k \in 1 .. Len(track) :
             Reaches(k) /\ \A j \in 1 .. (k - 1) : ~Reaches(j)
    ELSE 0
TimeDiffAt(k) == Abs(track[k].time - call.reference_time)

BothTracked ==
    /\ pair_call.preceding \in DOMAIN detections
    /\ pair_call.following \in DOMAIN detections
NoTimeOverlap ==
    \A i \in 1 .. Len(detections[pair_call.following]) :
        \A j \in 1 .. Len(detections[pair_call.preceding]) :
            detections[pair_call.following][i].time
                >= detections[pair_call.preceding][j].time

\* C1: when the earliest timestamp of the following track is not before the
\* latest timestamp of the preceding track, process_consecutive_pair returns
\* None for the pair.
C1_NoOverlapNoResult ==
    (IsPairCall /\ BothTracked /\ NoTimeOverlap) => pair_call.out.kind = "None"

\* A pair whose following track starts exactly when the preceding one ends,
\* after the preceding one began, was analysed and gave None.
C1_Witness ==
    /\ IsPairCall /\ BothTracked /\ NoTimeOverlap
    /\ pair_call.preceding # pair_call.following
    /\ min_time(detections[pair_call.following])
           = max_time(detections[pair_call.preceding])
    /\ min_time(detections[pair_call.following])
           > min_time(detections[pair_call.preceding])
    /\ Len(detections[pair_call.following]) >= 2
    /\ pair_call.out.kind = "None"

\* C2: the first point of the track is returned as soon as its distance to
\* the threshold meets min_distance.
C2_FirstPointAccepted ==
    (IsFirstValidCall /\ Len(track) >= 1 /\ Reaches(1)) => call.ret = 1

\* C3: when no point is both far enough and moving away, the first point
\* that is far enough is returned, and nothing only if no point is far enough.
C3_FallbackToFirstReaching ==
    (IsFirstValidCall /\ \A k \in 1 .. Len(track) : ~Outbound(k))
        => call.ret = FirstReaching

\* C4: a returned point that has a predecessor is at least min_distance
\* away, strictly farther than the point before it, and is the first such
\* point of the track.
C4_ReturnedPointIsFirstOutbound ==
    (IsFirstValidCall /\ call.ret >= 2)
        => /\ Outbound(call.ret)
           /\ \A j \in 2 .. (call.ret - 1) : ~Outbound(j)

\* A point was returned after an earlier point that was far enough but not
\* moving away.
C4_Witness ==
    /\ IsFirstValidCall /\ call.ret >= 3
    /\ \E j \in 2 .. (call.ret - 1) : Reaches(j)

\* C5: on a track whose distances strictly increase, the first point that
\* is far enough is returned, the first point of the track included.
C5_IncreasingTrackFirstReaching ==
    (IsFirstValidCall /\ \A k \in 2 .. Len(track) : DistAt(k) > DistAt(k - 1))
        => call.ret = FirstReaching

\* The track approaches over points 1..a (all far enough, each nearer than
\* the one before), stays under min_distance up to point k-1, and is far
\* enough again at point k.
DipThenOutbound(a, k) ==
    /\ 2 <= a /\ a + 1 < k /\ k <= Len(track)
    /\ \A i \in 1 .. a : Reaches(i)
    /\ \A i \in 2 .. a : DistAt(i) < DistAt(i - 1)
    /\ \A i \in (a + 1) .. (k - 1) : ~Reaches(i)
    /\ Reaches(k)

C7_NearestEarliestTie ==
    (IsConcurrentCall /\ call.ret # 0)
        => /\ \A j \in 1 .. Len(track) : TimeDiffAt(call.ret) <= TimeDiffAt(j)
           /\ \A j \in 1 .. (call.ret - 1) : TimeDiffAt(j) > TimeDiffAt(call.ret)

\* A point was returned although a later point is exactly as near in time
\* and an earlier one is farther.
C7_Witness ==
    /\ IsConcurrentCall /\ call.ret >= 2
    /\ \E j \in (call.ret + 1) .. Len(track) : TimeDiffAt(j) = TimeDiffAt(call.ret)

\* C8: nothing is returned exactly when no point is within max_time_diff of
\* reference_time, a difference equal to max_time_diff being within it.
C8_NoneIffOutOfTolerance ==
    IsConcurrentCall =>
        (call.ret = 0 <=>
            \A j \in 1 .. Len(track) : TimeDiffAt(j) > call.max_time_diff)

RadarMinimumOf(zone) ==
    IF zone = "TWR" THEN MINIMA_RADAR_TWR_NM ELSE MINIMA_RADAR_TMA_NM

\* C9: check_radar_separation(distance, zone) returns whether distance is
\* strictly under the radar minimum of the zone.
C9_RadarViolationIffBelowZoneMinimum ==
    (/\ IsRadarCall /\ eval_call.kw = "zone"
     /\ eval_call.zone \in {"TWR", "TMA"}
     /\ eval_call.distance.k = "num" /\ eval_call.distance.v >= 0)
        => /\ eval_call.ret.exc = ""
           /\ eval_call.ret.val
                  = (eval_call.distance.v < RadarMinimumOf(eval_call.zone))

\* C10: a negative, NaN or infinite distance, or a zone other than TWR and
\* TMA, makes check_radar_separation fail with a ValidationError.
C10_InvalidInputRaisesValidationError ==
    (/\ IsRadarCall
     /\ \/ eval_call.distance.k # "num"
        \/ eval_call.distance.v < 0
        \/ (eval_call.kw = "zone" /\ eval_call.zone \notin {"TWR", "TMA"}))
        => eval_call.ret.exc = "ValidationError"

IsWakeCall == eval_call.fn = "check_wake_turbulence_separation"
IsNormalizeCall == eval_call.fn = "normalize_wake_category"
WakeCategories == {"SUPER", "HEAVY", "MEDIUM", "LIGHT", "UNKNOWN"}
WakePairOfCall == <<eval_call.preceding_wake, eval_call.following_wake>>

\* C11: for a (leading, trailing) pair of the minima table the result is
\* (distance < required, required), required being the table value of that
\* ordered pair; HEAVY-LIGHT needs 6 NM, so 5.9 NM violates it and 6.0 and
\* 6.1 NM do not.
C11_WakeViolationIffBelowRequired ==
    (IsWakeCall /\ WakePairOfCall \in DOMAIN WAKE_TURBULENCE_SEPARATION)
        => /\ eval_call.ret.has_required
           /\ eval_call.ret.required = WAKE_TURBULENCE_SEPARATION[WakePairOfCall]
           /\ eval_call.ret.incumplimiento
                  = (eval_call.distance < WAKE_TURBULENCE_SEPARATION[WakePairOfCall])
           /\ (WakePairOfCall = <<"HEAVY", "LIGHT">>
                  => /\ eval_call.ret.required = 60
                     /\ eval_call.distance = 59 => eval_call.ret.incumplimiento
                     /\ eval_call.distance \in {60, 61} => ~eval_call.ret.incumplimiento)

\* HEAVY leading LIGHT at exactly the required 6 NM was judged: no violation.
C11_Witness ==
    /\ IsWakeCall /\ WakePairOfCall = <<"HEAVY", "LIGHT">>
    /\ eval_call.distance = 60
    /\ eval_call.ret = WakeResult(FALSE, 60)

\* C12: with the leading or the trailing category UNKNOWN the result is
\* (False, None) at every distance.
C12_UnknownNeverApplies ==
    (IsWakeCall /\ (eval_call.preceding_wake = "UNKNOWN"
                        \/ eval_call.following_wake = "UNKNOWN"))
        => eval_call.ret = WakeNotApplicable

\* UNKNOWN behind a SUPER, closer than every minimum of the table.
C12_Witness ==
    /\ IsWakeCall
    /\ eval_call.preceding_wake = "SUPER" /\ eval_call.following_wake = "UNKNOWN"
    /\ eval_call.distance = 39
    /\ eval_call.ret = WakeNotApplicable

\* C13: the lookup is ordered: a pair of categories absent from the table
\* as (leading, trailing) gives (False, None), also when the reversed pair
\* is in the table.
C13_OrderedLookup ==
    (/\ IsWakeCall
     /\ eval_call.preceding_wake \in WakeCategories
     /\ eval_call.following_wake \in WakeCategories
     /\ WakePairOfCall \notin DOMAIN WAKE_TURBULENCE_SEPARATION)
        => eval_call.ret = WakeNotApplicable

\* LIGHT leading HEAVY, nearer than the HEAVY-LIGHT minimum.
C13_Witness ==
    /\ IsWakeCall /\ WakePairOfCall = <<"LIGHT", "HEAVY">>
    /\ <<"HEAVY", "LIGHT">> \in DOMAIN WAKE_TURBULENCE_SEPARATION
    /\ eval_call.distance = 59
    /\ eval_call.ret = WakeNotApplicable

\* C14: normalize_wake_category returns one of SUPER, HEAVY, MEDIUM, LIGHT,
\* UNKNOWN for every raw label, and UNKNOWN for an empty, missing, "-" or
\* unrecognized one.
C14_NormalizedIntoClosedSet ==
    IsNormalizeCall
        => /\ eval_call.ret.exc = ""
           /\ eval_call.ret.category \in WakeCategories
           /\ eval_call.raw \in {"", "-", NoneValue} => eval_call.ret.category = "UNKNOWN"

PrecTrackOfCall == detections[pair_call.preceding]
FollTrackOfCall == detections[pair_call.following]

\* The earliest following timestamp is not after the earliest preceding one.
FollStartsNotAfterPrec ==
    \E i \in 1 .. Len(FollTrackOfCall) :
        \A j \in 1 .. Len(PrecTrackOfCall) :
            FollTrackOfCall[i].time <= PrecTrackOfCall[j].time

\* C15: when the earliest timestamp of the following track is not strictly
\* after the earliest timestamp of the preceding track, the pair gives None.
C15_FollowingMustStartAfterPreceding ==
    (IsPairCall /\ BothTracked /\ FollStartsNotAfterPrec)
        => pair_call.out.kind = "None"

\* Two different tracks that start at the same second, overlap in time and
\* have an outbound point with a concurrent preceding point: rejected.
C15_Witness ==
    /\ IsPairCall /\ BothTracked
    /\ pair_call.preceding # pair_call.following
    /\ min_time(FollTrackOfCall) = min_time(PrecTrackOfCall)
    /\ min_time(FollTrackOfCall) < max_time(PrecTrackOfCall)
    /\ LET fv == find_first_valid_detection(FollTrackOfCall,
                                            DISTANCIA_INICIAL_CALCULO_NM)
       IN  /\ fv # 0
           /\ \E j \in 1 .. Len(PrecTrackOfCall) :
                  PrecTrackOfCall[j].time = FollTrackOfCall[fv].time
    /\ pair_call.out.kind = "None"

\* Every step of the protocol passes for the pair of the call.
AllStepsPass ==
    /\ BothTracked
    /\ \E i \in 1 .. Len(FollTrackOfCall) : \E j \in 1 .. Len(PrecTrackOfCall) :
           FollTrackOfCall[i].time < PrecTrackOfCall[j].time
    /\ ~FollStartsNotAfterPrec
    /\ LET fv == find_first_valid_detection(FollTrackOfCall,
                                            DISTANCIA_INICIAL_CALCULO_NM)
       IN  /\ fv # 0
           /\ find_concurrent_detection(PrecTrackOfCall, FollTrackOfCall[fv].time,
                                        TOLERANCE_TIME_SECONDS) # 0

\* C16: a PairResult is returned exactly when both callsigns have a track,
\* the overlap and ordering checks pass, a TWR reference point exists and a
\* concurrent preceding point exists; otherwise the outcome is None.
C16_ResultIffAllStepsPass ==
    IsPairCall
        => /\ pair_call.out.kind \in {"result", "None"}
           /\ pair_call.out.kind = "result" <=> AllStepsPass

InBatch == batch.pc # ""
PairCount == Len(batch.dep_runway) - 1
PairOutcome(k) ==
    process_consecutive_pair(batch.dep_runway[k + 1], batch.dep_runway[k + 2], detections)

\* The pairs 0 .. n - 1 whose outcome is of the given kind, in loop order.
RECURSIVE PairsOfKind(_, _)
PairsOfKind(kind, n) ==
    IF n <= 0 THEN <<>>
    ELSE IF PairOutcome(n - 1).kind = kind
    THEN Append(PairsOfKind(kind, n - 1), n - 1)
    ELSE PairsOfKind(kind, n - 1)

\* C17: when the batch returns its results, every adjacent pair of the
\* scheduled departures has been analysed, also the pairs behind one whose
\* analysis raised: the pairs that raised were reported one by one, the
\* pairs without outcome were counted, and the results of all the other
\* pairs are returned in order.
C17_ExceptionDoesNotStopBatch ==
    batch.pc = "return_results" =>
        /\ batch.i = PairCount
        /\ batch.printed_errors = PairsOfKind("raise", PairCount)
        /\ batch.skipped_no_overlap = Len(PairsOfKind("None", PairCount))
        /\ batch.results =
              [k \in 1 .. Len(PairsOfKind("result", PairCount)) |->
                  PairOutcome(PairsOfKind("result", PairCount)[k]).rec]

\* The first pair raised and the second pair was analysed all the same: it
\* was counted as skipped.
C17_Witness ==
    /\ batch.pc = "return_results"
    /\ PairCount = 2
    /\ PairOutcome(0).kind = "raise"
    /\ batch.printed_errors = <<0>>
    /\ batch.skipped_no_overlap = 1

\* C18: when the batch over n departures returns its results, the pairs
\* returned and the pairs counted as skipped add up to the n - 1 adjacent
\* pairs; the function keeps no count of the pairs that raised.
C18_CountsAddUpToPairs ==
    batch.pc = "return_results" =>
        Len(batch.results) + batch.skipped_no_overlap = PairCount

IsGroupCall == call.fn = "group_detections_by_callsign"
BlankCallsign(cs) == cs = NoneValue \/ cs = "" \/ cs = " "
CountIn(seq, item) == Cardinality({k \in 1 .. Len(seq) : seq[k] = item})

\* C19: group_detections_by_callsign keeps no point whose callsign is
\* missing, empty or blank, puts every other point, as often as it occurs
\* in the input, into the track keyed by its callsign and into no other
\* track, and every track is ascending in time whatever the input order.
C19_GroupedAndSorted ==
    IsGroupCall =>
        /\ \A cs \in DOMAIN detections :
              /\ ~BlankCallsign(cs)
              /\ IsSortedByTime(detections[cs])
              /\ \A k \in 1 .. Len(detections[cs]) :
                    /\ detections[cs][k].callsign = cs
                    /\ CountIn(data_items, detections[cs][k]) >= 1
        /\ \A j \in 1 .. Len(data_items) :
              IF BlankCallsign(data_items[j].callsign)
              THEN data_items[j].callsign \notin DOMAIN detections
              ELSE /\ data_items[j].callsign \in DOMAIN detections
                   /\ CountIn(detections[data_items[j].callsign], data_items[j])
                         = CountIn(data_items, data_items[j])

\* A list with a blank callsign and a callsign whose points come latest
\* first has been grouped.
C19_Witness ==
    /\ IsGroupCall
    /\ \E j \in 1 .. Len(data_items) : data_items[j].callsign = " "
    /\ \E j, k \in 1 .. Len(data_items) :
          /\ j < k
          /\ data_items[j].callsign = data_items[k].callsign
          /\ data_items[j].callsign \in DOMAIN detections
          /\ data_items[j].time > data_items[k].time

IsTmaCall == tma_call.fn = "calculate_minimum_tma_distance"
\* The following points later than the reference time.
FollowingLater ==
    {j \in 1 .. Len(tma_call.following) :
        tma_call.following[j].time > tma_call.first_valid_time}
\* The preceding points inside the box, at most 6000 ft or of unknown
\* altitude, within the time span of the following points above.
PrecedingFiltered ==
    {k \in 1 .. Len(tma_call.preceding) :
        LET p == tma_call.preceding[k]
        IN  /\ 409 <= p.lat /\ p.lat <= 417 /\ 15 <= p.lon /\ p.lon <= 26
            /\ (p.barometric_altitude.known => p.barometric_altitude.ft <= 6000)
            /\ \E j \in FollowingLater : tma_call.following[j].time <= p.time
            /\ \E j \in FollowingLater : p.time <= tma_call.following[j].time}
PlanarDistance(j, k) ==
    Abs(tma_call.preceding[k].pos - tma_call.following[j].pos)
WithinWindow(j, k) ==
    Abs(tma_call.preceding[k].time - tma_call.following[j].time) <= 30
ComparedPairs ==
    {jk \in FollowingLater \X PrecedingFiltered : WithinWindow(jk[1], jk[2])}
IsMinimumOverComparedPairs ==
    /\ tma_call.ret.defined
    /\ \E jk \in ComparedPairs : PlanarDistance(jk[1], jk[2]) = tma_call.ret.min_distance
    /\ \A jk \in ComparedPairs : PlanarDistance(jk[1], jk[2]) >= tma_call.ret.min_distance

\* C20, as stated: when the following points later than the reference
\* time and the filtered preceding points are both non-empty, the TMA
\* minimum is defined and is the least planar distance over the pairs of
\* those sets whose times differ by at most 30 seconds.
C20_DefinedWhenBothSetsNonEmpty ==
    (IsTmaCall /\ FollowingLater # {} /\ PrecedingFiltered # {}) =>
        IsMinimumOverComparedPairs

\* C20, amended: when the two sets hold at least one pair of points whose
\* times differ by at most 30 seconds, the TMA minimum is defined and is
\* the least planar distance over those pairs; when they hold no such
\* pair, also when both are non-empty, the TMA minimum is undefined.
C20_DefinedIffPairWithinWindow ==
    IsTmaCall =>
        IF ComparedPairs # {}
        THEN IsMinimumOverComparedPairs
        ELSE ~tma_call.ret.defined

\* The minimum was taken while a pair further apart than 30 seconds in
\* time was closer in distance.
C20_Witness ==
    /\ IsTmaCall
    /\ tma_call.ret.defined
    /\ \E j \in FollowingLater, k \in PrecedingFiltered :
          ~WithinWindow(j, k) /\ PlanarDistance(j, k) < tma_call.ret.min_distance

IsOverlapCall == overlap_call.fn = "calculate_overlap_duration"
\* Start and end of a non-empty track, read off its detections.
SpanStart(dets) == CHOOSE t \in {dets[k].time : k \in DOMAIN dets} :
                       \A k \in DOMAIN dets : t <= dets[k].time
SpanEnd(dets) == CHOOSE t \in {dets[k].time : k \in DOMAIN dets} :
                     \A k \in DOMAIN dets : t >= dets[k].time
Min2(a, b) == IF a <= b THEN a ELSE b
Max2(a, b) == IF a >= b THEN a ELSE b
SpanDifference ==
    Min2(SpanEnd(overlap_call.preceding), SpanEnd(overlap_call.following))
        - Max2(SpanStart(overlap_call.preceding), SpanStart(overlap_call.following))

\* C22: the overlap duration of two non-empty tracks is min(prec_end,
\* foll_end) - max(prec_start, foll_start) when that is positive and 0
\* otherwise; it is never negative and it is 0 when a track is empty.
C22_OverlapDurationClamped ==
    IsOverlapCall =>
        /\ overlap_call.ret >= 0
        /\ IF overlap_call.preceding = <<>> \/ overlap_call.following = <<>>
           THEN overlap_call.ret = 0
           ELSE overlap_call.ret = IF SpanDifference > 0 THEN SpanDifference ELSE 0

\* The preceding track ended before the following one began and the
\* duration was clamped.
C22_Witness ==
    /\ IsOverlapCall
    /\ overlap_call.preceding # <<>>
    /\ overlap_call.following # <<>>
    /\ SpanDifference < 0
    /\ overlap_call.ret = 0

\* The TWR reference point of the following track of the call.
RefPointOfCall ==
    find_first_valid_detection(FollTrackOfCall, DISTANCIA_INICIAL_CALCULO_NM)
RefTimeOfCall == FollTrackOfCall[RefPointOfCall].time
\* The following points later than the TWR reference time.
FollLaterOfCall ==
    {j \in 1 .. Len(FollTrackOfCall) : FollTrackOfCall[j].time > RefTimeOfCall}
\* The preceding points inside the box, at most 6000 ft or of unknown
\* altitude, within the time span of the following points above.
PrecFilteredOfCall ==
    {k \in 1 .. Len(PrecTrackOfCall) :
        LET p == PrecTrackOfCall[k]
        IN  /\ 409 <= p.lat /\ p.lat <= 417 /\ 15 <= p.lon /\ p.lon <= 26
            /\ (p.barometric_altitude.known => p.barometric_altitude.ft <= 6000)
            /\ \E j \in FollLaterOfCall : FollTrackOfCall[j].time <= p.time
            /\ \E j \in FollLaterOfCall : p.time <= FollTrackOfCall[j].time}
PairDistance(j, k) == Abs(PrecTrackOfCall[k].pos - FollTrackOfCall[j].pos)
ComparedPairsOfCall ==
    {jk \in FollLaterOfCall \X PrecFilteredOfCall :
        Abs(PrecTrackOfCall[jk[2]].time - FollTrackOfCall[jk[1]].time) <= 30}
IsLeastDistanceOfCall(jk) ==
    \A other \in ComparedPairsOfCall :
        PairDistance(jk[1], jk[2]) <= PairDistance(other[1], other[2])

\* C21: when all steps pass and the TMA minimum is undefined (no following
\* point later than the TWR reference time, or no preceding point left
\* after filtering), a PairResult is returned all the same, its TMA
\* distance and time are blank and neither TMA violation flag is raised.
C21_UndefinedTmaReportedBlank ==
    (IsPairCall /\ AllStepsPass
        /\ (FollLaterOfCall = {} \/ PrecFilteredOfCall = {})) =>
        /\ pair_call.out.kind = "result"
        /\ pair_call.out.rec.ToD_Min_TMA = Blank
        /\ pair_call.out.rec.Min_Distance_TMA_NM = Blank
        /\ pair_call.out.rec.Inc_Radar_TMA = FALSE
        /\ pair_call.out.rec.Inc_Wake_TMA # Value(TRUE)

DistinctTimes(dets) ==
    \A j, k \in 1 .. Len(dets) : j # k => dets[j].time # dets[k].time

OnBatchRunway(row) ==
    \/ batch.runway = "24L" /\ row.PistaDesp \in {"24L", "LEBL-24L"}
    \/ batch.runway = "06R" /\ row.PistaDesp \in {"06R", "LEBL-06R"}
RunwayRows ==
    {batch.flight_plans[k] :
        k \in {j \in 1 .. Len(batch.flight_plans) : OnBatchRunway(batch.flight_plans[j])}}
ScheduledCount == Cardinality(RunwayRows)
ScheduledCallsign(k) ==
    (CHOOSE row \in RunwayRows :
        Cardinality({r \in RunwayRows : r.HoraDespegue < row.HoraDespegue}) = k - 1).Indicativo
HasTrack(callsign) == callsign \in DOMAIN detections
AnalysedPairSet == {batch.analysed_pairs[m] : m \in 1 .. Len(batch.analysed_pairs)}

\* C23: when the batch returns, the pairs analysed are exactly the pairs of
\* departures adjacent in scheduled-time order, each once and in that
\* order, every result belongs to such a pair, and a departure without
\* track makes both adjacent pairs that contain it not analysable, its
\* predecessor never being paired with its successor.
C23_OnlyAdjacentPairsInOrder ==
    batch.pc = "return_results" =>
        /\ batch.analysed_pairs =
              [k \in 1 .. (ScheduledCount - 1) |->
                  <<ScheduledCallsign(k), ScheduledCallsign(k + 1)>>]
        /\ \A m \in 1 .. Len(batch.results) :
              \E k \in 1 .. (ScheduledCount - 1) :
                  /\ batch.results[m].Callsign_Preceding = ScheduledCallsign(k)
                  /\ batch.results[m].Callsign_Following = ScheduledCallsign(k + 1)
        /\ \A k \in 1 .. ScheduledCount :
              ~HasTrack(ScheduledCallsign(k)) =>
                  /\ \A j \in {k - 1, k} \cap (1 .. (ScheduledCount - 1)) :
                        PairOutcome(j - 1).kind = "None"
                  /\ (1 < k /\ k < ScheduledCount) =>
                        <<ScheduledCallsign(k - 1), ScheduledCallsign(k + 1)>>
                            \notin AnalysedPairSet

\* The middle one of three departures has no track, the other two have
\* tracks that analyse to more than None when paired, both adjacent
\* pairs were counted as skipped and the sheet was not in time order.
C23_Witness ==
    /\ batch.pc = "return_results"
    /\ ScheduledCount = 3
    /\ ~HasTrack(ScheduledCallsign(2))
    /\ HasTrack(ScheduledCallsign(1)) /\ HasTrack(ScheduledCallsign(3))
    /\ process_consecutive_pair(batch.dep_runway[1], batch.dep_runway[3],
                                detections).kind # "None"
    /\ batch.skipped_no_overlap = 2
    /\ batch.flight_plans[1].HoraDespegue > batch.flight_plans[2].HoraDespegue

====
